---------------------------- MODULE Spec2Model ----------------------------
(***************************************************************************)
(* Export 2KML (export2kml.py): batch export of vector and raster layers   *)
(* to one KML document or one KMZ archive.                                 *)
(*                                                                         *)
(* Three specifications share the module:                                  *)
(*   Spec       the dialog (Export2KML) and its run_export handler         *)
(*   SpecVector add_vector_layer applied to bounded data sources           *)
(*   SpecRaster add_raster_layer applied to bounded rasters                *)
(***************************************************************************)
EXTENDS Integers, Sequences, FiniteSets, TLC

VARIABLES
    \* ---- Export2KML object and its dialog widgets
    project_layers,     \* QgsProject.instance().mapLayers().values()
    added_file_layers,  \* self.added_file_layers
    tblChecked,         \* column 0 of dlg.tableLayers: the Export? boxes
    radioKMZ,           \* dlg.radioKMZ.isChecked()
    radioKMLEnabled,    \* dlg.radioKML.isEnabled()
    output_path,        \* self.output_path (<<>> while the attribute is unset)
    dlgVisible,         \* dlg shown / closed
    hasProgress,        \* whether form.ui gives the dialog a progressBar
    progressVisible,    \* progressBar.isVisible()
    \* ---- the world outside the process
    fs,                 \* what is stored at each output path
    \* ---- one run of run_export
    pc,                 \* position of run_export: idle, loop, finish, done
    idx,                \* loop index i of "for i, lyr in enumerate(all_layers)"
    doc,                \* the <Document> element being built
    collected,          \* PNG paths returned by add_raster_layer
    rasters_dir,        \* files of the run's temporary rasters directory
    total_rasters,
    raster_count,
    progressLog,        \* values given to progress.setValue in this run
    errors,             \* messages given to QMessageBox.critical in this run
    messages,           \* messages pushed to iface.messageBar() in this run
    processed,          \* rows handed to an exporter in this run
    failedAt,           \* row whose exporter raised in this run (0: none)
    fsAtStart,          \* fs as it was when this run started
    wrote,              \* this run reached the write of the artifact
    \* ---- direct calls of the two exporters
    vecIn, vecOut,
    rasIn, rasOut

dialogVars == <<project_layers, added_file_layers, tblChecked, radioKMZ,
                radioKMLEnabled, output_path, dlgVisible, hasProgress,
                progressVisible>>
runVars == <<pc, idx, doc, collected, rasters_dir, total_rasters, raster_count, progressLog,
             errors, messages, processed, failedAt, fsAtStart, wrote>>
callVars == <<vecIn, vecOut, rasIn, rasOut>>
vars == <<dialogVars, fs, runVars, callVars>>

-----------------------------------------------------------------------------
(* Bounds *)
MaxFeatures == 2      \* features of a data source
MaxFieldList == 2     \* length of props['fields']
MaxAdded == 2         \* files added through add_layer
MaxPixel == 1         \* pixel sizes of a geotransform range over -MaxPixel..MaxPixel
MaxSize == 2          \* raster width and height range over 1..MaxSize

-----------------------------------------------------------------------------
(* Generic sequence helpers *)
SeqsUpTo(S, n) == UNION {[1..k -> S] : k \in 0..n}

Range(s) == {s[k] : k \in DOMAIN s}

Last(s) == s[Len(s)]

-----------------------------------------------------------------------------
(* xml.etree.ElementTree elements                                          *)
Element(tag, attr, text, children) ==
    [tag |-> tag, attr |-> attr, text |-> text, children |-> children]

\* ET.SubElement(parent, ...): the new element becomes the LAST child
SubElement(parent, child) ==
    [parent EXCEPT !.children = Append(@, child)]

\* make_kml_root(): an empty <Document>
make_kml_root == Element("Document", "", "", <<>>)

-----------------------------------------------------------------------------
(* Python values and str()                                                 *)
PyInt(n) == [t |-> "int", n |-> n, s |-> ""]
PyStr(s) == [t |-> "str", n |-> 0, s |-> s]
PyNone == [t |-> "None", n |-> 0, s |-> ""]

Digits == <<"0", "1", "2", "3", "4", "5", "6", "7", "8", "9">>

RECURSIVE NatStr(_)
NatStr(n) == IF n < 10 THEN Digits[n + 1] ELSE NatStr(n \div 10) \o Digits[(n % 10) + 1]

\* str(val) of a field value, a number or None
PyToStr(v) ==
    CASE v.t = "int" -> IF v.n < 0 THEN "-" \o NatStr(-v.n) ELSE NatStr(v.n)
      [] v.t = "str" -> v.s
      [] OTHER -> "None"

\* props.get(key) for a string-valued key: "" stands for None and for '',
\* which the code tells apart nowhere (it only tests truthiness)
PropsGet(props, key) == IF key \in DOMAIN props THEN props[key] ELSE ""

\* props.get('fields'): <<>> stands for None and for []
PropsGetFields(props) == IF "fields" \in DOMAIN props THEN props["fields"] ELSE <<>>

\* os.path.splitext(os.path.basename(path))[0]; a path is <<base, extension>>
BaseName(path) == path[1]

-----------------------------------------------------------------------------
(* add_vector_layer                                                        *)

\* variant: the binding is looked up among the feature's attributes, whether
\* or not the layer's schema lists the name
ResolveBinding_AnyAttribute(feat, avail, nm) ==
    IF nm \in DOMAIN feat.vals THEN PyToStr(feat.vals[nm]) ELSE nm

\* "val = feat.GetField(nm) if nm in avail else nm", then str(val)
ResolveBinding(feat, avail, nm) ==
    IF nm \in Range(avail) THEN PyToStr(feat.vals[nm]) ELSE nm

\* variant: the loop runs over the schema and emits the fields requested,
\* so the entries come in schema order
RECURSIVE ExtendedData_SchemaOrder(_, _, _, _)
ExtendedData_SchemaOrder(ext, feat, avail, flds) ==
    IF avail = <<>> THEN ext
    ELSE LET fld == Head(avail)
             nxt == IF fld \in Range(flds)
                    THEN SubElement(ext,
                            Element("Data", fld, "",
                                <<Element("value", "", PyToStr(feat.vals[fld]), <<>>)>>))
                    ELSE ext
         IN ExtendedData_SchemaOrder(nxt, feat, Tail(avail), flds)

\* the <ExtendedData> loop: one <Data name=fld><value> per fld of flds in avail
RECURSIVE ExtendedData(_, _, _, _)
ExtendedData(ext, feat, avail, flds) ==
    IF flds = <<>> THEN ext
    ELSE LET fld == Head(flds)
             nxt == IF fld \in Range(avail)
                    THEN SubElement(ext,
                            Element("Data", fld, "",
                                <<Element("value", "", PyToStr(feat.vals[fld]), <<>>)>>))
                    ELSE ext
         IN ExtendedData(nxt, feat, avail, Tail(flds))

\* the body of "for feat in layer": the <Placemark> of one feature
Placemark(feat, avail, props) ==
    LET pm0 == Element("Placemark", "", "", <<>>)
        pm1 == IF PropsGet(props, "name") # ""
               THEN SubElement(pm0, Element("name", "",
                        ResolveBinding(feat, avail, props["name"]), <<>>))
               ELSE pm0
        pm2 == IF PropsGet(props, "description") # ""
               THEN SubElement(pm1, Element("description", "",
                        ResolveBinding(feat, avail, props["description"]), <<>>))
               ELSE pm1
        pm3 == IF PropsGetFields(props) # <<>>
               THEN SubElement(pm2,
                        ExtendedData(Element("ExtendedData", "", "", <<>>),
                                     feat, avail, props["fields"]))
               ELSE pm2
        pm4 == IF feat.geom # ""
               THEN SubElement(pm3, Element(feat.geom, "", feat.coords, <<>>))
               ELSE pm3
    IN pm4

\* variant: a feature without geometry gets no Placemark
RECURSIVE AddPlacemarks_SkipNoGeom(_, _, _, _)
AddPlacemarks_SkipNoGeom(folder, feats, avail, props) ==
    IF feats = <<>> THEN folder
    ELSE AddPlacemarks_SkipNoGeom(
            IF Head(feats).geom = "" THEN folder
            ELSE SubElement(folder, Placemark(Head(feats), avail, props)),
            Tail(feats), avail, props)

\* "for feat in layer": features in the data source's iteration order
RECURSIVE AddPlacemarks(_, _, _, _)
AddPlacemarks(folder, feats, avail, props) ==
    IF feats = <<>> THEN folder
    ELSE AddPlacemarks(SubElement(folder, Placemark(Head(feats), avail, props)),
                       Tail(feats), avail, props)

\* variant: the Folder is inserted in front of the nodes already in the
\* document
add_vector_layer_FolderFirst(d, path, props, ds) ==
    IF ~ds.opens THEN [doc |-> d, raised |-> TRUE]
    ELSE LET folder0 == SubElement(Element("Folder", "", "", <<>>),
                                   Element("name", "", BaseName(path), <<>>))
             folder == AddPlacemarks(folder0, ds.feats, ds.fields, props)
         IN [doc |-> [d EXCEPT !.children = <<folder>> \o @], raised |-> FALSE]

\* add_vector_layer(doc, path, props) on the data source ds found at path;
\* ds.opens = FALSE is ogr.Open failing.  Result: the document and whether
\* the call raised.
add_vector_layer(d, path, props, ds) ==
    IF ~ds.opens THEN [doc |-> d, raised |-> TRUE]
    ELSE LET folder_label == IF PropsGet(props, "folder_name") # ""
                             THEN props["folder_name"] ELSE BaseName(path)
             folder0 == SubElement(Element("Folder", "", "", <<>>),
                                   Element("name", "", folder_label, <<>>))
             folder == AddPlacemarks(folder0, ds.feats, ds.fields, props)
         IN [doc |-> SubElement(d, folder), raised |-> FALSE]

-----------------------------------------------------------------------------
(* add_raster_layer                                                        *)

\* str() of a Python float with an integral value: 20.0 -> '20.0'
PyFloatStr(n) == (IF n < 0 THEN "-" \o NatStr(-n) ELSE NatStr(n)) \o ".0"

\* f'{base}.png'
ImgName(path) == BaseName(path) \o ".png"

\* os.path.join(rasters_dir, img_name) and os.path.basename of such a path
PathJoin(dir, name) == <<dir, name>>
OsBasename(p) == p[Len(p)]

\* the dataset whose geotransform is read: the raster itself when its
\* reference IsSame EPSG:4326, else the VRT that gdal.Warp returns
GeoDataset(ras) ==
    IF ras.geographic THEN [gt |-> ras.gt, xs |-> ras.xs, ys |-> ras.ys]
    ELSE ras.warped

\* minx, maxy = gt[0], gt[3]; maxx = minx + gt[1]*xs; miny = maxy + gt[5]*ys
\* gt is kept as [ox, pw, oy, ph] = (gt[0], gt[1], gt[3], gt[5])
LatLonBox(g) ==
    LET minx == g.gt.ox
        maxy == g.gt.oy
        maxx == minx + g.gt.pw * g.xs
        miny == maxy + g.gt.ph * g.ys
    IN [north |-> maxy, south |-> miny, east |-> maxx, west |-> minx]

\* step 9: the <GroundOverlay> element
GroundOverlay(path, props, box) ==
    LET label == IF PropsGet(props, "folder_name") # "" THEN props["folder_name"]
                 ELSE IF PropsGet(props, "name") # "" THEN props["name"]
                 ELSE BaseName(path)
    IN Element("GroundOverlay", "", "",
         << Element("visibility", "", "1", <<>>),
            Element("name", "", label, <<>>),
            Element("Icon", "", "",
                <<Element("href", "", "rasters/" \o ImgName(path), <<>>)>>),
            Element("LatLonBox", "", "",
                << Element("north", "", PyFloatStr(box.north), <<>>),
                   Element("south", "", PyFloatStr(box.south), <<>>),
                   Element("east", "", PyFloatStr(box.east), <<>>),
                   Element("west", "", PyFloatStr(box.west), <<>>) >>) >>)

NoBox == [north |-> 0, south |-> 0, east |-> 0, west |-> 0]

\* add_raster_layer(doc, path, props, rasters_dir) on the raster ras found
\* at path.  ras.valid = FALSE is rlayer.isValid() failing (raised before
\* the PNG is saved); ras.opens = FALSE is gdal.Open failing (raised after
\* the PNG is saved, before the document is touched).
\* Result: the document, whether the call raised, the returned img_path,
\* the files of rasters_dir, and the numeric bounds.
add_raster_layer(d, path, props, dir, ras) ==
    IF ~ras.valid
    THEN [doc |-> d, raised |-> TRUE, png |-> <<>>, dir |-> dir, box |-> NoBox]
    ELSE IF ~ras.opens
    THEN [doc |-> d, raised |-> TRUE, png |-> <<>>,
          dir |-> dir \cup {ImgName(path)}, box |-> NoBox]
    ELSE LET box == LatLonBox(GeoDataset(ras))
         IN [doc |-> SubElement(d, GroundOverlay(path, props, box)),
             raised |-> FALSE,
             png |-> PathJoin("rasters", ImgName(path)),
             dir |-> dir \cup {ImgName(path)},
             box |-> box]

-----------------------------------------------------------------------------
(* Inputs of the direct calls *)

\* props as the dict the exporters receive: absent keys are absent
MakeProps(name, description, folder_name, fields) ==
    [k \in ({"name"} \cap (IF name # "" THEN {"name"} ELSE {}))
          \cup ({"description"} \cap (IF description # "" THEN {"description"} ELSE {}))
          \cup ({"folder_name"} \cap (IF folder_name # "" THEN {"folder_name"} ELSE {}))
          \cup ({"fields"} \cap (IF fields # <<>> THEN {"fields"} ELSE {}))
      |-> CASE k = "name" -> name
            [] k = "description" -> description
            [] k = "folder_name" -> folder_name
            [] OTHER -> fields]

Schemas == {<<>>, <<"id">>, <<"id", "kind">>}

FeaturePool ==
    { [vals |-> [id |-> PyInt(12), kind |-> PyStr("well")],
       geom |-> "Point", coords |-> "1,2"],
      [vals |-> [id |-> PyInt(-3), kind |-> PyNone],
       geom |-> "", coords |-> ""],
      [vals |-> [id |-> PyNone, kind |-> PyStr("id")],
       geom |-> "Polygon", coords |-> "0,0 0,1 1,1 0,0"] }

VectorSources ==
    [opens : BOOLEAN, fields : Schemas, feats : SeqsUpTo(FeaturePool, MaxFeatures)]

VectorProps ==
    { MakeProps(n, de, fo, fl) :
        n \in {"", "id", "kind", "Site"}, de \in {"", "kind", "n/a"},
        fo \in {"", "Wells"},
        fl \in SeqsUpTo({"id", "kind", "zz"}, MaxFieldList) }

\* a document that already holds the node of an earlier layer
DocWithOne ==
    SubElement(make_kml_root,
               SubElement(Element("Folder", "", "", <<>>),
                          Element("name", "", "earlier", <<>>)))

VecInputs ==
    [doc : {make_kml_root, DocWithOne}, path : {<<"wells", "shp">>},
     props : VectorProps, ds : VectorSources]

\* gdal.Warp(..., dstSRS='EPSG:4326') returns a north-up dataset: positive
\* pixel width, negative pixel height
WarpedPool ==
    { [gt |-> [ox |-> 10, pw |-> 1, oy |-> 20, ph |-> -1], xs |-> 2, ys |-> 3],
      [gt |-> [ox |-> -7, pw |-> 2, oy |-> 4, ph |-> -3], xs |-> 1, ys |-> 1] }

PixelSizes == (-MaxPixel)..MaxPixel

Rasters ==
    [valid : BOOLEAN, opens : BOOLEAN, geographic : BOOLEAN,
     gt : [ox : {-3, 10}, pw : PixelSizes, oy : {5}, ph : PixelSizes],
     xs : 1..MaxSize, ys : 1..MaxSize, warped : WarpedPool]

RasterProps == { MakeProps(n, "", fo, <<>>) : n \in {"", "Site"}, fo \in {"", "DEMs"} }

RasInputs ==
    [doc : {make_kml_root}, path : {<<"dem", "tif">>}, props : RasterProps,
     ras : Rasters]

NotCalled == [called |-> FALSE]

VecNotCalled == [called |-> FALSE, doc |-> make_kml_root, raised |-> FALSE]

RasNotCalled ==
    [called |-> FALSE, doc |-> make_kml_root, raised |-> FALSE, png |-> <<>>,
     dir |-> {}, box |-> NoBox]

-----------------------------------------------------------------------------
(* The dialog: layers, files and paths                                     *)

\* str.lower() on the extensions that occur
Lower(s) ==
    CASE s = "TIF" -> "tif"
      [] s = "TIFF" -> "tiff"
      [] s = "KML" -> "kml"
      [] s = "KMZ" -> "kmz"
      [] OTHER -> s

\* path.lower().endswith('.' + ext); a path is a sequence of dot-separated parts
EndsWith(path, ext) == Len(path) >= 2 /\ Lower(Last(path)) = ext

\* files the user can pick in the Browse dialog of add_layer
Files == {<<"roads", "shp">>, <<"dem", "TIFF">>}

\* add_layer: QgsRasterLayer for *.tif / *.tiff, QgsVectorLayer otherwise
LayerOfFile(path) ==
    [kind |-> IF EndsWith(path, "tif") \/ EndsWith(path, "tiff")
              THEN "Raster" ELSE "Vector",
     path |-> path]

\* layers the project may hold when the plugin is used
ProjectChoices ==
    {<<>>, <<LayerOfFile(<<"roads", "shp">>)>>, <<LayerOfFile(<<"dem", "tif">>)>>}

\* what ogr.Open finds at a vector layer's source
VectorSource(path) ==
    [opens |-> TRUE, fields |-> <<"id">>,
     feats |-> << [vals |-> [id |-> PyInt(12), kind |-> PyStr("well")],
                   geom |-> "Point", coords |-> "1,2"],
                  [vals |-> [id |-> PyNone, kind |-> PyStr("id")],
                   geom |-> "", coords |-> ""] >>]

\* what QgsRasterLayer / gdal.Open find at a raster layer's source
RasterSource(path) ==
    [valid |-> TRUE, opens |-> TRUE,
     geographic |-> (Last(path) = "tif"),
     gt |-> [ox |-> 10, pw |-> 1, oy |-> 20, ph |-> -1],
     xs |-> 2, ys |-> 3,
     warped |-> [gt |-> [ox |-> 10, pw |-> 1, oy |-> 20, ph |-> -1],
                 xs |-> 2, ys |-> 3]]

\* names the user can type in the Output File dialog of select_output
SaveNames == {<<"out", "KMZ">>}

Formats == {"kml", "kmz"}

\* select_output: "if not path.lower().endswith(f'.{fmt}'): path += f'.{fmt}'"
WithExtension(path, fmt) == IF EndsWith(path, fmt) THEN path ELSE Append(path, fmt)

OutPaths == {WithExtension(p, f) : p \in SaveNames, f \in Formats}

\* texts the user can leave in the 'Name' combo of a row
ComboTexts == {"<None>", " id "}

\* str.strip() on the combo texts that occur
Strip(s) == IF s = " id " THEN "id" ELSE s

\* run_export, lines 392-397, for the 'Name' column: the props of one row
RowProps(text) ==
    IF Strip(text) # "" /\ Strip(text) # "<None>"
    THEN MakeProps(Strip(text), "", "", <<>>)
    ELSE MakeProps("", "", "", <<>>)

\* what an output path holds: nothing, a file from before, a document file
\* ("kml") or a zip archive with its entry names in the order written
NoFile == [kind |-> "none", entries |-> <<>>]
OldFile == [kind |-> "old", entries |-> <<>>]

\* all_layers = project_layers + self.added_file_layers
all_layers == project_layers \o added_file_layers

IsCheckedRaster(layers, checked, i) == layers[i].kind = "Raster" /\ checked[i]

\* update_format_options: the any_raster scan
AnyRaster(layers, checked) ==
    \E i \in 1..Len(layers) : IsCheckedRaster(layers, checked, i)

\* update_format_options, lines 305-308
update_format_options(layers, checked) ==
    /\ radioKMLEnabled' = ~AnyRaster(layers, checked)
    /\ radioKMZ' = IF AnyRaster(layers, checked) THEN TRUE ELSE radioKMZ

\* populate_table: one row per layer, every Export? box checked
populate_table(layers) == [i \in 1..Len(layers) |-> TRUE]

-----------------------------------------------------------------------------
(* Initial state *)

\* run_export is not running: its locals and the record of the run are empty
RunIdle ==
    /\ pc = "idle"
    /\ idx = 0
    /\ doc = make_kml_root
    /\ collected = <<>>
    /\ rasters_dir = {}
    /\ total_rasters = 0
    /\ raster_count = 0
    /\ progressLog = <<>>
    /\ errors = <<>>
    /\ messages = <<>>
    /\ processed = <<>>
    /\ failedAt = 0
    /\ fsAtStart = fs
    /\ wrote = FALSE

NoCalls ==
    /\ vecIn = NotCalled
    /\ vecOut = VecNotCalled
    /\ rasIn = NotCalled
    /\ rasOut = RasNotCalled

\* Export2KML.__init__ and initGui; the radios' and the progress bar's
\* presence come from form.ui
DialogInit ==
    /\ project_layers \in ProjectChoices
    /\ added_file_layers = <<>>
    /\ tblChecked = <<>>
    /\ radioKMZ \in BOOLEAN
    /\ radioKMLEnabled = TRUE
    /\ output_path = <<>>
    /\ dlgVisible = FALSE
    /\ hasProgress \in BOOLEAN
    /\ progressVisible = FALSE

Init ==
    /\ DialogInit
    /\ fs = [p \in OutPaths |-> IF EndsWith(p, "kmz") THEN OldFile ELSE NoFile]
    /\ RunIdle
    /\ NoCalls

-----------------------------------------------------------------------------
(* Dialog handlers *)

\* show_dialog: populate_table, update_format_options, dlg.show()
show_dialog ==
    /\ pc = "idle"
    /\ tblChecked' = populate_table(all_layers)
    /\ update_format_options(all_layers, tblChecked')
    /\ dlgVisible' = TRUE
    /\ UNCHANGED <<project_layers, added_file_layers, output_path, hasProgress,
                   progressVisible, fs, runVars, callVars>>

\* add_layer: the user cancels, or picks a file that does not load (an error
\* box, nothing else), or picks a file that loads
add_layer ==
    /\ pc = "idle"
    /\ dlgVisible
    /\ Len(added_file_layers) < MaxAdded
    /\ \E path \in Files \cup {<<>>}, valid \in BOOLEAN :
         IF path = <<>> \/ ~valid
         THEN UNCHANGED <<added_file_layers, tblChecked, radioKMZ, radioKMLEnabled>>
         ELSE /\ added_file_layers' = Append(added_file_layers, LayerOfFile(path))
              /\ tblChecked' = populate_table(project_layers \o added_file_layers')
              /\ update_format_options(project_layers \o added_file_layers', tblChecked')
    /\ UNCHANGED <<project_layers, output_path, dlgVisible, hasProgress,
                   progressVisible, fs, runVars, callVars>>

\* the user toggles the Export? box of row i: stateChanged runs
\* update_format_options
ToggleExport ==
    /\ pc = "idle"
    /\ dlgVisible
    /\ \E i \in 1..Len(tblChecked) :
         /\ tblChecked' = [tblChecked EXCEPT ![i] = ~@]
         /\ update_format_options(all_layers, tblChecked')
    /\ UNCHANGED <<project_layers, added_file_layers, output_path, dlgVisible,
                   hasProgress, progressVisible, fs, runVars, callVars>>

\* the user clicks the KML radio (possible only while it is enabled)
ClickKML ==
    /\ pc = "idle"
    /\ dlgVisible
    /\ radioKMLEnabled
    /\ radioKMZ' = FALSE
    /\ UNCHANGED <<project_layers, added_file_layers, tblChecked, radioKMLEnabled,
                   output_path, dlgVisible, hasProgress, progressVisible, fs,
                   runVars, callVars>>

\* the user clicks the KMZ radio
ClickKMZ ==
    /\ pc = "idle"
    /\ dlgVisible
    /\ radioKMZ' = TRUE
    /\ UNCHANGED <<project_layers, added_file_layers, tblChecked, radioKMLEnabled,
                   output_path, dlgVisible, hasProgress, progressVisible, fs,
                   runVars, callVars>>

\* select_output: fmt from the KMZ radio, the extension appended when missing
select_output ==
    /\ pc = "idle"
    /\ dlgVisible
    /\ \E path \in SaveNames \cup {<<>>} :
         LET fmt == IF radioKMZ THEN "kmz" ELSE "kml"
         IN IF path = <<>>
            THEN UNCHANGED output_path
            ELSE output_path' = WithExtension(path, fmt)
    /\ UNCHANGED <<project_layers, added_file_layers, tblChecked, radioKMZ,
                   radioKMLEnabled, dlgVisible, hasProgress, progressVisible, fs,
                   runVars, callVars>>

\* btnCancel: dlg.close
Cancel ==
    /\ pc = "idle"
    /\ dlgVisible
    /\ dlgVisible' = FALSE
    /\ UNCHANGED <<project_layers, added_file_layers, tblChecked, radioKMZ,
                   radioKMLEnabled, output_path, hasProgress, progressVisible, fs,
                   runVars, callVars>>

-----------------------------------------------------------------------------
(* run_export *)

\* whether the name Qgis is bound when line 433 evaluates Qgis.Info: the
\* import of lines 27-33 brings in QgsProject, QgsVectorLayer,
\* QgsRasterLayer, QgsMapSettings and QgsMapRendererParallelJob, not Qgis
QgisImported == FALSE

\* total_rasters: the checked raster rows
CountRasters(layers, checked) ==
    Cardinality({i \in 1..Len(layers) : IsCheckedRaster(layers, checked, i)})

\* pct = int(raster_count / total_rasters * 100)
Percent(count, total) == (count * 100) \div total

\* variant: the bar is not touched before the first raster
ProgressStart_None(has) == <<>>

\* progress.setValue(0) at the start of a run, when the dialog has a bar
ProgressStart(has) == IF has THEN <<0>> ELSE <<>>

\* "if progress and total_rasters: progress.setValue(pct)" after a raster
ProgressAfterRaster(log, has, count, total) ==
    IF has /\ total # 0 THEN Append(log, Percent(count, total)) ELSE log

\* variant: PNGs are added under their distinct names only
Package_DistinctNames(pngs) ==
    IF pngs # <<>>
    THEN [kind |-> "zip",
          entries |-> <<"doc.kml">> \o
                      [k \in 1..Cardinality(Range(pngs)) |->
                          "rasters/" \o OsBasename(pngs[k])]]
    ELSE [kind |-> "kml", entries |-> <<>>]

\* step 5: the archive (doc.kml, then rasters/<basename> per collected PNG)
\* or, with nothing collected, the document file itself; doc.kml and the
\* document file hold the serialized doc
Package(pngs) ==
    IF pngs # <<>>
    THEN [kind |-> "zip",
          entries |-> <<"doc.kml">> \o
                      [k \in 1..Len(pngs) |-> "rasters/" \o OsBasename(pngs[k])]]
    ELSE [kind |-> "kml", entries |-> <<>>]

\* variant: an error inside the loop is reported and the loop goes on
Except_GoOn(msg) ==
    /\ errors' = Append(errors, msg)
    /\ pc' = IF pc = "loop" THEN "loop" ELSE "done"

\* the except clause: QMessageBox.critical(..., str(e)); the handler returns
Except(msg) ==
    /\ errors' = Append(errors, msg)
    /\ pc' = "done"

\* lines 357-384: the output check, the root, the progress bar, the count
RunBegin ==
    /\ pc = "idle"
    /\ dlgVisible
    /\ fsAtStart' = fs
    /\ IF output_path = <<>>
       THEN /\ Except("Please select an output file")
            /\ UNCHANGED <<doc, collected, rasters_dir, idx, total_rasters,
                           raster_count, progressLog, progressVisible>>
       ELSE /\ doc' = make_kml_root
            /\ collected' = <<>>
            /\ rasters_dir' = {}
            /\ progressLog' = ProgressStart(hasProgress)
            /\ progressVisible' = IF hasProgress THEN TRUE ELSE progressVisible
            /\ total_rasters' = CountRasters(all_layers, tblChecked)
            /\ raster_count' = 0
            /\ idx' = 1
            /\ pc' = "loop"
            /\ UNCHANGED errors
    /\ UNCHANGED <<project_layers, added_file_layers, tblChecked, radioKMZ,
                   radioKMLEnabled, output_path, dlgVisible, hasProgress, fs,
                   messages, processed, failedAt, wrote, callVars>>

\* the loop body for an unchecked row: continue
RunSkip ==
    /\ pc = "loop"
    /\ idx <= Len(all_layers)
    /\ ~tblChecked[idx]
    /\ idx' = idx + 1
    /\ UNCHANGED <<dialogVars, fs, pc, doc, collected, rasters_dir, total_rasters,
                   raster_count, progressLog, errors, messages, processed,
                   failedAt, fsAtStart, wrote, callVars>>

\* the loop body for a checked raster row, lines 391-407
RunRaster ==
    /\ pc = "loop"
    /\ idx <= Len(all_layers)
    /\ tblChecked[idx]
    /\ all_layers[idx].kind = "Raster"
    /\ processed' = Append(processed, idx)
    /\ \E text \in ComboTexts, valid \in BOOLEAN, opens \in BOOLEAN :
         LET path == all_layers[idx].path
             ras == [RasterSource(path) EXCEPT !.valid = valid, !.opens = opens]
             r == add_raster_layer(doc, path, RowProps(text), rasters_dir, ras)
         IN /\ doc' = r.doc
            /\ rasters_dir' = r.dir
            /\ IF r.raised
               THEN /\ Except(IF ~valid THEN "Cannot load raster"
                                        ELSE "Cannot open raster")
                    /\ failedAt' = idx
                    /\ UNCHANGED <<collected, raster_count, progressLog, idx>>
               ELSE /\ collected' = Append(collected, r.png)
                    /\ raster_count' = raster_count + 1
                    /\ progressLog' = ProgressAfterRaster(progressLog, hasProgress,
                                          raster_count', total_rasters)
                    /\ idx' = idx + 1
                    /\ UNCHANGED <<pc, errors, failedAt>>
    /\ UNCHANGED <<dialogVars, fs, total_rasters, messages, fsAtStart, wrote,
                   callVars>>

\* the loop body for a checked row of any other layer, lines 391-397, 409-411
RunVector ==
    /\ pc = "loop"
    /\ idx <= Len(all_layers)
    /\ tblChecked[idx]
    /\ all_layers[idx].kind # "Raster"
    /\ processed' = Append(processed, idx)
    /\ \E text \in ComboTexts, opens \in BOOLEAN :
         LET path == all_layers[idx].path
             ds == [VectorSource(path) EXCEPT !.opens = opens]
             r == add_vector_layer(doc, path, RowProps(text), ds)
         IN /\ doc' = r.doc
            /\ IF r.raised
               THEN /\ Except("Cannot open vector")
                    /\ failedAt' = idx
                    /\ UNCHANGED idx
               ELSE /\ idx' = idx + 1
                    /\ UNCHANGED <<pc, errors, failedAt>>
    /\ UNCHANGED <<dialogVars, fs, collected, rasters_dir, total_rasters,
                   raster_count, progressLog, messages, fsAtStart, wrote, callVars>>

\* lines 413-426 once the loop is over: doc.kml, then the archive or the move
RunWrite ==
    /\ pc = "loop"
    /\ idx > Len(all_layers)
    /\ fs' = [fs EXCEPT ![output_path] = Package(collected)]
    /\ wrote' = TRUE
    /\ pc' = "finish"
    /\ UNCHANGED <<dialogVars, idx, doc, collected, rasters_dir, total_rasters,
                   raster_count, progressLog, errors, messages, processed,
                   failedAt, fsAtStart, callVars>>

\* lines 428-437: hide the bar, push the message, close the dialog
RunFinish ==
    /\ pc = "finish"
    /\ progressVisible' = IF hasProgress THEN FALSE ELSE progressVisible
    /\ IF QgisImported
       THEN /\ messages' = Append(messages, "Exported to")
            /\ dlgVisible' = FALSE
            /\ pc' = "done"
            /\ UNCHANGED errors
       ELSE /\ Except("name 'Qgis' is not defined")
            /\ UNCHANGED <<messages, dlgVisible>>
    /\ UNCHANGED <<project_layers, added_file_layers, tblChecked, radioKMZ,
                   radioKMLEnabled, output_path, hasProgress, fs, idx, doc,
                   collected, rasters_dir, total_rasters, raster_count,
                   progressLog, processed, failedAt, fsAtStart, wrote, callVars>>

\* the handler returns to the event loop: its locals are gone
RunReturn ==
    /\ pc = "done"
    /\ pc' = "idle"
    /\ idx' = 0
    /\ doc' = make_kml_root
    /\ collected' = <<>>
    /\ rasters_dir' = {}
    /\ total_rasters' = 0
    /\ raster_count' = 0
    /\ progressLog' = <<>>
    /\ errors' = <<>>
    /\ messages' = <<>>
    /\ processed' = <<>>
    /\ failedAt' = 0
    /\ fsAtStart' = fs
    /\ wrote' = FALSE
    /\ UNCHANGED <<dialogVars, fs, callVars>>

Next ==
    \/ show_dialog
    \/ add_layer
    \/ ToggleExport
    \/ ClickKML
    \/ ClickKMZ
    \/ select_output
    \/ Cancel
    \/ RunBegin
    \/ RunSkip
    \/ RunRaster
    \/ RunVector
    \/ RunWrite
    \/ RunFinish
    \/ RunReturn

Spec == Init /\ [][Next]_vars

-----------------------------------------------------------------------------
(* Direct calls of the exporters on bounded inputs *)

\* the plugin object sits unused while an exporter is called directly
DialogQuiet ==
    /\ project_layers = <<>>
    /\ added_file_layers = <<>>
    /\ tblChecked = <<>>
    /\ radioKMZ = FALSE
    /\ radioKMLEnabled = TRUE
    /\ output_path = <<>>
    /\ dlgVisible = FALSE
    /\ hasProgress = FALSE
    /\ progressVisible = FALSE
    /\ fs = [p \in OutPaths |-> NoFile]
    /\ RunIdle

VecInit ==
    /\ DialogQuiet
    /\ vecIn \in VecInputs
    /\ vecOut = VecNotCalled
    /\ rasIn = NotCalled
    /\ rasOut = RasNotCalled

\* add_vector_layer(doc, path, props)
VecCall ==
    /\ ~vecOut.called
    /\ LET r == add_vector_layer(vecIn.doc, vecIn.path, vecIn.props, vecIn.ds)
       IN vecOut' = [called |-> TRUE, doc |-> r.doc, raised |-> r.raised]
    /\ UNCHANGED <<dialogVars, fs, runVars, vecIn, rasIn, rasOut>>

SpecVector == VecInit /\ [][VecCall]_vars

RasInit ==
    /\ DialogQuiet
    /\ rasIn \in RasInputs
    /\ rasOut = RasNotCalled
    /\ vecIn = NotCalled
    /\ vecOut = VecNotCalled

\* add_raster_layer(doc, path, props, rasters_dir)
RasCall ==
    /\ ~rasOut.called
    /\ LET r == add_raster_layer(rasIn.doc, rasIn.path, rasIn.props, {}, rasIn.ras)
       IN rasOut' = [called |-> TRUE, doc |-> r.doc, raised |-> r.raised,
                     png |-> r.png, dir |-> r.dir, box |-> r.box]
    /\ UNCHANGED <<dialogVars, fs, runVars, vecIn, vecOut, rasIn>>

SpecRaster == RasInit /\ [][RasCall]_vars

-----------------------------------------------------------------------------
(* Helpers of the properties *)

ChildrenWithTag(e, tag) == SelectSeq(e.children, LAMBDA c : c.tag = tag)

\* the rows of the table whose Export? box is checked, in table order
CheckedRows ==
    SelectSeq([i \in 1..Len(all_layers) |-> i], LAMBDA i : tblChecked[i])

\* the checked raster rows, in table order
CheckedRasterRows ==
    SelectSeq(CheckedRows, LAMBDA i : all_layers[i].kind = "Raster")

NoDuplicates(sq) == \A i, j \in DOMAIN sq : sq[i] = sq[j] => i = j

\* the run reached the write of step 5
Written == pc \in {"finish", "done"} /\ wrote

-----------------------------------------------------------------------------
(* Properties of run_export and the dialog, checked under Spec *)

\* C1: once a run has written its artifact, the output path holds the single
\* document file (no archive) when no checked layer is a raster, and
\* otherwise a zip archive whose entries are doc.kml followed by one
\* rasters/<base>.png per checked raster, in table order, so that the number
\* of PNG entries equals the number of checked rasters.
C1_FormatSelection ==
    Written =>
        LET art == fs[output_path]
            rr == CheckedRasterRows
        IN IF rr = <<>>
           THEN art.kind = "kml" /\ art.entries = <<>>
           ELSE /\ art.kind = "zip"
                /\ Len(art.entries) = 1 + Len(rr)
                /\ art.entries[1] = "doc.kml"
                /\ \A k \in 1..Len(rr) :
                     art.entries[k + 1] =
                        "rasters/" \o all_layers[rr[k]].path[1] \o ".png"

\* C1 witness: an archive written for two checked rasters of the same base
\* name, next to an unchecked vector
C1_Witness ==
    /\ Written
    /\ Len(CheckedRasterRows) = 2
    /\ Len(CheckedRows) < Len(all_layers)
    /\ fs[output_path].entries = <<"doc.kml", "rasters/dem.png", "rasters/dem.png">>

\* C2: when an exporter raised for a checked row, that row is the last one
\* handed to an exporter, the run has stopped, nothing was written (every
\* output path holds what it held when the run started) and the error sink
\* received exactly one message.
C2_AbortOnFirstFailure ==
    failedAt # 0 =>
        /\ pc = "done"
        /\ processed # <<>>
        /\ Last(processed) = failedAt
        /\ \A k \in DOMAIN processed : processed[k] <= failedAt
        /\ ~wrote
        /\ fs = fsAtStart
        /\ Len(errors) = 1

\* C2 witness: the first checked row failed while a later checked row waits
\* and the output path already holds a file
C2_Witness ==
    /\ failedAt # 0
    /\ \E j \in DOMAIN tblChecked : j > failedAt /\ tblChecked[j]
    /\ output_path # <<>>
    /\ fs[output_path].kind # "none"

\* C3: whenever a run wrote a zip archive the stored output path ends in
\* .kmz, and whenever it wrote with no checked raster the path ends in .kml
\* or .kmz (extensions compared as select_output compares them).
C3_ExtensionMatchesFormat ==
    Written =>
        /\ fs[output_path].kind = "zip" => EndsWith(output_path, "kmz")
        /\ CheckedRasterRows = <<>> =>
             EndsWith(output_path, "kml") \/ EndsWith(output_path, "kmz")

\* C4 as stated: the progress sink is invoked only once per exported raster,
\* and never in a run with zero checked rasters.
C4_ProgressOnlyForRasters ==
    /\ Len(progressLog) <= raster_count
    /\ (pc # "idle" /\ CheckedRasterRows = <<>>) => progressLog = <<>>

\* C4 amended: when the dialog has a progress bar, a run that has an output
\* path sets the sink to 0 once before any layer is processed and afterwards
\* invokes it exactly once after each exported raster, with
\* int(raster_count / total_rasters * 100); in a run with zero checked
\* rasters that first 0 is the only invocation.  Without a bar, or without
\* an output path, the sink is never invoked.
C4_ProgressTiming ==
    IF hasProgress /\ pc # "idle" /\ output_path # <<>>
    THEN /\ Len(progressLog) = 1 + raster_count
         /\ progressLog[1] = 0
         /\ \A k \in 1..raster_count :
              progressLog[k + 1] = (k * 100) \div Len(CheckedRasterRows)
         /\ CheckedRasterRows = <<>> => progressLog = <<0>>
    ELSE progressLog = <<>>

\* C4 witness: a finished run over two rasters and a vector
C4_Witness ==
    /\ Written
    /\ hasProgress
    /\ Len(CheckedRows) = 3
    /\ progressLog = <<0, 50, 100>>

\* C5: during a run the children of Document are, in processing order, one
\* node per row exported so far: a Folder named after the layer for a vector
\* row, a GroundOverlay pointing at rasters/<base>.png for a raster row; once
\* the artifact is written the rows exported are exactly the checked rows in
\* table order, and the children stay so until the handler returns.
C5_DocumentOrder ==
    LET done == IF failedAt # 0 THEN SubSeq(processed, 1, Len(processed) - 1)
                ELSE processed
    IN /\ Len(doc.children) = Len(done)
       /\ \A k \in 1..Len(done) :
            LET lyr == all_layers[done[k]]
                node == doc.children[k]
            IN IF lyr.kind = "Raster"
               THEN /\ node.tag = "GroundOverlay"
                    /\ node.children[3].children[1].text =
                          "rasters/" \o lyr.path[1] \o ".png"
               ELSE /\ node.tag = "Folder"
                    /\ node.children[1].text = lyr.path[1]
       /\ Written => processed = CheckedRows

\* C5 witness: a raster, an unchecked row, then a vector
C5_Witness ==
    /\ Written
    /\ Len(all_layers) = 3
    /\ tblChecked = <<TRUE, FALSE, TRUE>>
    /\ Len(doc.children) = 2
    /\ doc.children[1].tag = "GroundOverlay"
    /\ doc.children[2].tag = "Folder"

\* C10: a run that wrote its artifact ends with the 'Exported to' message
\* pushed, the dialog closed and no message given to the error sink; the
\* error sink receives a message only in runs that wrote nothing.
C10_SuccessExcludesError ==
    /\ (pc = "done" /\ wrote) =>
          /\ messages = <<"Exported to">>
          /\ ~dlgVisible
          /\ errors = <<>>
    /\ errors # <<>> => ~wrote

-----------------------------------------------------------------------------
(* Properties of add_vector_layer, checked under SpecVector *)

\* the call returned without raising
VecDone == vecOut.called /\ ~vecOut.raised

\* the Folder the call appended, and the children that follow its <name>
VecFolder == Last(vecOut.doc.children)
VecPlacemarks == Tail(VecFolder.children)

\* C6: for a layer of N features the call appends one Folder as the last
\* child of the document, holding after its name exactly N Placemark
\* children, the i-th carrying the geometry of the i-th feature (none when
\* the feature has none) and, where name is bound to a schema field, the
\* i-th feature's value of it; this with or without bindings.
C6_PlacemarkCountAndOrder ==
    VecDone =>
        LET feats == vecIn.ds.feats
            pms == VecPlacemarks
        IN /\ Len(vecOut.doc.children) = Len(vecIn.doc.children) + 1
           /\ VecFolder.tag = "Folder"
           /\ Len(ChildrenWithTag(VecFolder, "Placemark")) = Len(feats)
           /\ Len(pms) = Len(feats)
           /\ \A i \in 1..Len(feats) :
                LET geoms == SelectSeq(pms[i].children,
                                LAMBDA c : c.tag \in {"Point", "LineString", "Polygon"})
                IN /\ pms[i].tag = "Placemark"
                   /\ IF feats[i].geom = "" THEN geoms = <<>>
                      ELSE /\ Len(geoms) = 1
                           /\ geoms[1].tag = feats[i].geom
                           /\ geoms[1].text = feats[i].coords
                   /\ (PropsGet(vecIn.props, "name") = "id"
                        /\ "id" \in Range(vecIn.ds.fields))
                      => ChildrenWithTag(pms[i], "name")[1].text
                            = PyToStr(feats[i].vals["id"])

\* C6 witness: two different features, one without geometry, no binding set
C6_Witness ==
    /\ VecDone
    /\ DOMAIN vecIn.props = {}
    /\ Len(vecIn.ds.feats) = 2
    /\ vecIn.ds.feats[1].geom = ""
    /\ vecIn.ds.feats[2].geom = "Polygon"
    /\ Len(VecPlacemarks) = 2

\* C7: for name and for description, in every Placemark: an unset binding
\* leaves the element out; a binding equal to a field name of the schema
\* gives one element holding str() of that feature's value of the field; any
\* other binding gives one element holding the binding text itself.
C7_BindingResolution ==
    VecDone =>
        \A i \in 1..Len(vecIn.ds.feats) : \A key \in {"name", "description"} :
            LET b == PropsGet(vecIn.props, key)
                els == ChildrenWithTag(VecPlacemarks[i], key)
                v == vecIn.ds.feats[i].vals
            IN IF b = "" THEN els = <<>>
               ELSE /\ Len(els) = 1
                    /\ els[1].text =
                         IF \E k \in DOMAIN vecIn.ds.fields : vecIn.ds.fields[k] = b
                         THEN PyToStr(v[b])
                         ELSE b

\* C7 witness: name bound to the schema field id (values 12 and None),
\* description bound to "kind", which this layer's schema does not hold
C7_Witness ==
    /\ VecDone
    /\ vecIn.ds.fields = <<"id">>
    /\ PropsGet(vecIn.props, "name") = "id"
    /\ PropsGet(vecIn.props, "description") = "kind"
    /\ Len(VecPlacemarks) = 2
    /\ VecPlacemarks[1].children[1].text = "12"
    /\ VecPlacemarks[2].children[1].text = "None"
    /\ VecPlacemarks[1].children[2].text = "kind"
    /\ VecPlacemarks[2].children[2].text = "kind"

-----------------------------------------------------------------------------
(* Properties of add_raster_layer, checked under SpecRaster *)

\* C9: for every raster with width and height >= 1 and non-zero pixel
\* sizes, whatever its native reference, the LatLonBox computed by the call
\* has south < north and west < east.
C9_RasterBounds ==
    (/\ rasOut.called
     /\ ~rasOut.raised
     /\ rasIn.ras.xs >= 1
     /\ rasIn.ras.ys >= 1
     /\ rasIn.ras.gt.pw # 0
     /\ rasIn.ras.gt.ph # 0)
    => /\ rasOut.box.south < rasOut.box.north
       /\ rasOut.box.west < rasOut.box.east

=============================================================================
